---- MODULE Spec2Model ----
(***************************************************************************)
(* rss-notifier: the polling pipeline of src/src/main.rs.                  *)
(*                                                                         *)
(* main prepares the database, spawns the scheduler task and then binds    *)
(* the HTTP listener.  The scheduler calls send_feeds, which lists the     *)
(* rss_feeds table and spawns one check_send_feed task per row; each task  *)
(* fetches the feed, compares the first item's pub_date with the           *)
(* last_pub_date of the row it was spawned with, sends a mail and then     *)
(* updates the row.  The HTTP handlers create, modify and delete rows and  *)
(* force a check of one row.                                               *)
(*                                                                         *)
(* An Option<T> of the code is a set with at most one element: None is {}  *)
(* and Some(x) is {x}.                                                     *)
(***************************************************************************)
EXTENDS Integers, Sequences, FiniteSets, Bags

\* ---------------------------------------------------------------- bounds
\* Feed ids are 1..MaxId, publish timestamps are 1..MaxTime, and at most
\* MaxTasks check_send_feed tasks are in flight at once.
MaxId == 2
MaxTime == 2
MaxTasks == 2
LiveMaxId == 1

IDs == 1..MaxId
Times == 1..MaxTime

\* The request bodies (CreateRssFeed) the HTTP clients send.
Payloads == { [name |-> "n1", feed_url |-> "u1"] }
Urls == { p.feed_url : p \in Payloads }

\* ---------------------------------------------------------------- state
VARIABLES
    mainpc,     \* where main() is: a startup step, "serve" or "exited"
    schedpc,    \* send_feeds_scheduler: "unspawned", "cycle" or "sleep"
    db,         \* rss_feeds: id -> Option(row)
    remote,     \* feed_url -> pubDate of the newest item published there
    tasks,      \* bag of the check_send_feed tasks in flight
    ev          \* what the last step did (the log line it wrote)

vars == <<mainpc, schedpc, db, remote, tasks, ev>>

None == {}
Some(x) == {x}
Get(o) == CHOOSE x \in o : TRUE
Option(S) == {None} \cup { Some(x) : x \in S }

\* struct RssFeed, without its id (the key of db).
NewRow(payload, last) ==
    [name |-> payload.name, feed_url |-> payload.feed_url, last_pub_date |-> last]
Rows == { NewRow(p, l) : p \in Payloads, l \in Option(Times) }

\* struct RssFeed as a task holds it.
RssFeed(id, row) ==
    [id |-> id, name |-> row.name, feed_url |-> row.feed_url,
     last_pub_date |-> row.last_pub_date]

\* A task that was never spawned: the task field of the events of other steps.
NoTask ==
    [feed |-> [id |-> 0, name |-> "", feed_url |-> "", last_pub_date |-> None],
     pc |-> "none", item |-> None, nsent |-> 0]

\* tokio::spawn(check_send_feed(ctx, feed)): the task is at its first await.
NewTask(feed) ==
    [feed |-> feed, pc |-> "fetch", item |-> None, nsent |-> 0]

\* What a step did: kind, the feed id and the task it is about, the rows a
\* cycle listed, the error it logged, and in io what the outside world answered
\* (the feed server, the SMTP relay, the database).
Event(kind, id, task, feeds, err, io) ==
    [kind |-> kind, id |-> id, task |-> task, feeds |-> feeds, err |-> err, io |-> io]

Alive == mainpc # "exited"
InFlight == BagToSet(tasks)

\* ---------------------------------------------------------------- startup
Init ==
    /\ mainpc = "prepare_db"
    /\ schedpc = "unspawned"
    /\ db \in [IDs -> Option(Rows)]
    /\ remote \in [Urls -> Times]
    /\ tasks = EmptyBag
    /\ ev = Event("init", 0, NoTask, <<>>, "", "")

\* One fallible startup step of main: `?` returns the error and the process ends.
StartupStep(at, next, what) ==
    /\ mainpc = at
    /\ \E ok \in BOOLEAN :
        /\ mainpc' = IF ok THEN next ELSE "exited"
        /\ ev' = Event(IF ok THEN "startup_ok" ELSE "startup_failed", 0, NoTask, <<>>,
                     IF ok THEN "" ELSE what, "")
    /\ UNCHANGED <<schedpc, db, remote, tasks>>

PrepareDb == StartupStep("prepare_db", "connect", "Failed to create DB file.")
ConnectDb == StartupStep("connect", "migrate", "connect")
Migrate == StartupStep("migrate", "spawn_scheduler", "Migration failed!")

\* tokio::spawn(send_feeds_scheduler): the scheduler runs from here on.
SpawnScheduler ==
    /\ mainpc = "spawn_scheduler"
    /\ mainpc' = "bind"
    /\ schedpc' = "cycle"
    /\ ev' = Event("scheduler_spawned", 0, NoTask, <<>>, "", "")
    /\ UNCHANGED <<db, remote, tasks>>

Bind == StartupStep("bind", "serve", "Failed to bind Web Service")

\* ---------------------------------------------------------------- scheduler
RECURSIVE ListFrom(_, _)
\* SELECT id, name, feed_url, last_pub_date FROM rss_feeds ORDER BY id
ListFrom(table, i) ==
    IF i > MaxId THEN <<>>
    ELSE (IF table[i] = None THEN <<>> ELSE <<RssFeed(i, Get(table[i]))>>)
         \o ListFrom(table, i + 1)
ListFeeds(table) == ListFrom(table, 1)

\* Faulty variant: only the first listed row gets its task.
SpawnFirst(pool, feeds) ==
    IF feeds = <<>> THEN pool
    ELSE pool (+) SetToBag({NewTask(Head(feeds))})

RECURSIVE SpawnAll(_, _)
\* for feed in feeds.into_iter() { tokio::spawn(check_send_feed(feed)) }
SpawnAll(pool, feeds) ==
    IF feeds = <<>> THEN pool
    ELSE SpawnAll(pool (+) SetToBag({NewTask(Head(feeds))}), Tail(feeds))

\* send_feeds returns Ok: every listed row has its task.
SendFeedsOk ==
    LET feeds == ListFeeds(db) IN
    /\ BagCardinality(tasks) + Len(feeds) <= MaxTasks
    /\ tasks' = SpawnAll(tasks, feeds)
    /\ ev' = Event("cycle_dispatched", 0, NoTask, feeds, "", "ok")

\* send_feeds returns Err (fetch_all failed): the scheduler logs it.
SendFeedsErr ==
    /\ tasks' = tasks
    /\ ev' = Event("cycle_failed", 0, NoTask, <<>>, "fetch_all", "failed")

\* Faulty variant: the loop propagates the error of send_feeds and ends
\* (send_feeds(ctx).await? in place of if let Err(e)).
SendFeedsPropagates ==
    /\ Alive
    /\ schedpc = "cycle"
    /\ \/ SendFeedsOk /\ schedpc' = "sleep"
       \/ SendFeedsErr /\ schedpc' = "stopped"
    /\ UNCHANGED <<mainpc, db, remote>>

\* One iteration of the scheduler's loop up to its sleep.
SendFeeds ==
    /\ Alive
    /\ schedpc = "cycle"
    /\ \/ SendFeedsOk
       \/ SendFeedsErr
    /\ schedpc' = "sleep"
    /\ UNCHANGED <<mainpc, db, remote>>

\* Faulty variant: the loop waits for the checks it launched before the next
\* cycle (the JoinHandles are awaited).
WakeAfterJoin ==
    /\ Alive
    /\ schedpc = "sleep"
    /\ tasks = EmptyBag
    /\ schedpc' = "cycle"
    /\ ev' = Event("cycle_begins", 0, NoTask, <<>>, "", "")
    /\ UNCHANGED <<mainpc, db, remote, tasks>>

\* tokio::time::sleep(polling_time_sec) elapses: the loop calls send_feeds again.
Wake ==
    /\ Alive
    /\ schedpc = "sleep"
    /\ schedpc' = "cycle"
    /\ ev' = Event("cycle_begins", 0, NoTask, <<>>, "", "")
    /\ UNCHANGED <<mainpc, db, remote, tasks>>

\* ---------------------------------------------------------------- the feed server
\* What reqwest::get(feed_url) returns when the newest item there is of time t.
GoodResponse(t) ==
    [fetched |-> TRUE, channel |-> TRUE, has_item |-> TRUE, pub_date |-> "rfc2822",
     link |-> TRUE, title |-> TRUE, t |-> t]
Responses(t) ==
    { GoodResponse(t),
      [GoodResponse(t) EXCEPT !.fetched = FALSE],
      [GoodResponse(t) EXCEPT !.channel = FALSE],
      [GoodResponse(t) EXCEPT !.has_item = FALSE],
      [GoodResponse(t) EXCEPT !.pub_date = "missing"],
      [GoodResponse(t) EXCEPT !.pub_date = "unparseable"],
      [GoodResponse(t) EXCEPT !.link = FALSE],
      [GoodResponse(t) EXCEPT !.title = FALSE] }

\* A new item appears at a feed url.
Publish ==
    /\ \E u \in Urls, t \in Times :
        /\ remote[u] # t
        /\ remote' = [remote EXCEPT ![u] = t]
        /\ ev' = Event("published", 0, NoTask, <<>>, "", u)
    /\ UNCHANGED <<mainpc, schedpc, db, tasks>>

\* ---------------------------------------------------------------- check_send_feed
\* Lines 193-198: the first error of the try block before the match, "" if none.
ReadError(r) ==
    IF ~r.fetched THEN "RSS Fetch failed"
    ELSE IF ~r.channel THEN "RSS channel read failed"
    ELSE IF ~r.has_item THEN "RSS channel item empty"
    ELSE IF r.pub_date = "missing" THEN "RSS Item missing pub_date"
    ELSE IF r.pub_date = "unparseable" THEN "Failed RFC2822 RSS pub_date parsing"
    ELSE IF ~r.link THEN "RSS Item missing link"
    ELSE ""

\* The rss::Item the task keeps: its parsed pub_date and whether it has a title.
ItemOf(r) == [pub_date |-> r.t, title |-> r.title]

\* Faulty variants of the match, which the properties below must tell from it:
\* one that always notifies, one that notifies only for a newer item.
IsChangedAlways(stored, fetched) == TRUE
IsChangedOnlyNewer(stored, fetched) == stored = None \/ fetched > Get(stored)

\* match feed.last_pub_date { Some(l) if l == pub_date => no-op, _ => notify }
IsChanged(stored, fetched) == ~(stored # None /\ Get(stored) = fetched)

\* Faulty variant: an error in one task tears down every task in flight.
FinishAll(t) == EmptyBag

\* The task ends: the future completes and tokio drops it.
Finish(t) == tasks (-) SetToBag({t})
Replace(t, u) == (tasks (-) SetToBag({t})) (+) SetToBag({u})

\* Faulty variant: the match reads the row again instead of the feed the task
\* was spawned with (a missing row counts as no checkpoint).
FetchRereads(t) ==
    /\ t.pc = "fetch"
    /\ \E r \in Responses(remote[t.feed.feed_url]) :
        LET err == ReadError(r)
            item == ItemOf(r)
            got == [t EXCEPT !.item = Some(item)]
            stored == IF db[t.feed.id] = None THEN None
                      ELSE Get(db[t.feed.id]).last_pub_date
        IN
        IF err # "" THEN
            /\ tasks' = Finish(t)
            /\ ev' = Event("check_failed", t.feed.id, [t EXCEPT !.pc = "done"], <<>>, err, err)
        ELSE IF ~IsChanged(stored, item.pub_date) THEN
            /\ tasks' = Finish(t)
            /\ ev' = Event("check_noop", t.feed.id, [got EXCEPT !.pc = "done"], <<>>, "", "ok")
        ELSE
            /\ tasks' = Replace(t, [got EXCEPT !.pc = "send"])
            /\ ev' = Event("check_changed", t.feed.id, [got EXCEPT !.pc = "send"], <<>>, "", "ok")
    /\ UNCHANGED <<mainpc, schedpc, db, remote>>

\* Lines 193-204: fetch, parse, and the match on last_pub_date.
Fetch(t) ==
    /\ t.pc = "fetch"
    /\ \E r \in Responses(remote[t.feed.feed_url]) :
        LET err == ReadError(r)
            item == ItemOf(r)
            got == [t EXCEPT !.item = Some(item)]
        IN
        IF err # "" THEN
            /\ tasks' = Finish(t)
            /\ ev' = Event("check_failed", t.feed.id, [t EXCEPT !.pc = "done"], <<>>, err, err)
        ELSE IF ~IsChanged(t.feed.last_pub_date, item.pub_date) THEN
            /\ tasks' = Finish(t)
            /\ ev' = Event("check_noop", t.feed.id, [got EXCEPT !.pc = "done"], <<>>, "", "ok")
        ELSE
            /\ tasks' = Replace(t, [got EXCEPT !.pc = "send"])
            /\ ev' = Event("check_changed", t.feed.id, [got EXCEPT !.pc = "send"], <<>>, "", "ok")
    /\ UNCHANGED <<mainpc, schedpc, db, remote>>

\* What the SMTP relay does with one send_notification.
SmtpOutcomes == {"ok", "Error connecting to SMTP Server", "Error sending message to SMTP Server"}

\* Faulty variant: the relay's answer is dropped (let _ = ... .send(message)).
SendErrorIgnored(item, smtp) == IF ~item.title THEN "RSS Item missing title" ELSE ""

\* send_notification, lines 223-243: "" when the relay accepted the mail.
SendError(item, smtp) ==
    IF ~item.title THEN "RSS Item missing title"
    ELSE IF smtp # "ok" THEN smtp
    ELSE ""

\* Faulty variant: a failed send is attempted again by the same task.
SendRetries(t) ==
    /\ t.pc = "send"
    /\ \E smtp \in SmtpOutcomes :
        LET err == SendError(Get(t.item), smtp)
            io == IF Get(t.item).title THEN smtp ELSE ""
            sent == [t EXCEPT !.nsent = @ + 1]
        IN
        IF err # "" /\ io = "" THEN
            /\ tasks' = Finish(t)
            /\ ev' = Event("check_failed", t.feed.id, [t EXCEPT !.pc = "done"], <<>>, err, io)
        ELSE IF err # "" THEN
            /\ tasks' = tasks
            /\ ev' = Event("check_failed", t.feed.id, t, <<>>, err, io)
        ELSE
            /\ tasks' = Replace(t, [sent EXCEPT !.pc = "update"])
            /\ ev' = Event("mail_sent", t.feed.id, [sent EXCEPT !.pc = "update"], <<>>, "", io)
    /\ UNCHANGED <<mainpc, schedpc, db, remote>>

\* Line 206: send_notification(ctx, &feed, &item).await?
Send(t) ==
    /\ t.pc = "send"
    /\ \E smtp \in SmtpOutcomes :
        LET err == SendError(Get(t.item), smtp)
            \* the relay is reached only after the title was found (line 227)
            io == IF Get(t.item).title THEN smtp ELSE ""
            sent == [t EXCEPT !.nsent = @ + 1]
        IN
        IF err # "" THEN
            /\ tasks' = Finish(t)
            /\ ev' = Event("check_failed", t.feed.id, [t EXCEPT !.pc = "done"], <<>>, err, io)
        ELSE
            /\ tasks' = Replace(t, [sent EXCEPT !.pc = "update"])
            /\ ev' = Event("mail_sent", t.feed.id, [sent EXCEPT !.pc = "update"], <<>>, "", io)
    /\ UNCHANGED <<mainpc, schedpc, db, remote>>

\* Faulty variants: an UPDATE that changes no row, and one without its WHERE.
UpdateNothing(table, id, pub_date) == table
UpdateAllRows(table, id, pub_date) ==
    [i \in IDs |->
        IF table[i] # None
        THEN Some([Get(table[i]) EXCEPT !.last_pub_date = Some(pub_date)])
        ELSE table[i]]

\* Faulty variant: an upsert, which puts back a row that is gone.
UpdateUpserts(table, id, pub_date) ==
    [i \in IDs |->
        IF i # id THEN table[i]
        ELSE IF table[i] # None
        THEN Some([Get(table[i]) EXCEPT !.last_pub_date = Some(pub_date)])
        ELSE Some(NewRow(CHOOSE p \in Payloads : TRUE, Some(pub_date)))]

\* UPDATE rss_feeds SET last_pub_date = $1 WHERE id = $2
UpdateLastPubDate(table, id, pub_date) ==
    [i \in IDs |->
        IF i = id /\ table[i] # None
        THEN Some([Get(table[i]) EXCEPT !.last_pub_date = Some(pub_date)])
        ELSE table[i]]

\* Faulty variant: a failed UPDATE has changed the row all the same.
UpdateFailsAfterWrite(t) ==
    /\ t.pc = "update"
    /\ tasks' = Finish(t)
    /\ db' = UpdateLastPubDate(db, t.feed.id, Get(t.item).pub_date)
    /\ \E ok \in BOOLEAN :
        IF ok THEN
            ev' = Event("check_updated", t.feed.id, [t EXCEPT !.pc = "done"], <<>>, "", "ok")
        ELSE
            ev' = Event("check_failed", t.feed.id, [t EXCEPT !.pc = "done"], <<>>,
                        "Failed to set last_pub_date in DB", "failed")
    /\ UNCHANGED <<mainpc, schedpc, remote>>

\* Lines 208-210: the checkpoint write, which ends the task either way.
Update(t) ==
    /\ t.pc = "update"
    /\ tasks' = Finish(t)
    /\ \E ok \in BOOLEAN :
        IF ok THEN
            /\ db' = UpdateLastPubDate(db, t.feed.id, Get(t.item).pub_date)
            /\ ev' = Event("check_updated", t.feed.id, [t EXCEPT !.pc = "done"], <<>>, "", "ok")
        ELSE
            /\ db' = db
            /\ ev' = Event("check_failed", t.feed.id, [t EXCEPT !.pc = "done"], <<>>,
                           "Failed to set last_pub_date in DB", "failed")
    /\ UNCHANGED <<mainpc, schedpc, remote>>

\* One step of one task in flight.
CheckSendFeed ==
    /\ Alive
    /\ \E t \in InFlight :
        \/ Fetch(t)
        \/ Send(t)
        \/ Update(t)

\* ---------------------------------------------------------------- HTTP handlers
Serving == mainpc = "serve"

\* POST /feeds/: the new row gets an id no row has and no last_pub_date.
CreateFeed ==
    /\ Serving
    /\ \E p \in Payloads, id \in IDs, ok \in BOOLEAN :
        /\ db[id] = None
        /\ db' = IF ok THEN [db EXCEPT ![id] = Some(NewRow(p, None))] ELSE db
        /\ ev' = Event(IF ok THEN "created" ELSE "http_error", id, NoTask, <<>>, "", "")
    /\ UNCHANGED <<mainpc, schedpc, remote, tasks>>

\* PUT /feeds/:id/: UPDATE ... SET name, feed_url WHERE id, then get_feed.
ModifyFeed ==
    /\ Serving
    /\ \E p \in Payloads, id \in IDs, ok \in BOOLEAN :
        /\ db' = IF ok /\ db[id] # None
                 THEN [db EXCEPT ![id] = Some(NewRow(p, Get(db[id]).last_pub_date))]
                 ELSE db
        /\ ev' = Event(IF ok /\ db[id] # None THEN "modified" ELSE "http_error",
                       id, NoTask, <<>>, "", "")
    /\ UNCHANGED <<mainpc, schedpc, remote, tasks>>

\* DELETE /feeds/:id/
DeleteFeed ==
    /\ Serving
    /\ \E id \in IDs, ok \in BOOLEAN :
        /\ db' = IF ok THEN [db EXCEPT ![id] = None] ELSE db
        /\ ev' = Event(IF ok THEN "deleted" ELSE "http_error", id, NoTask, <<>>, "", "")
    /\ UNCHANGED <<mainpc, schedpc, remote, tasks>>

\* Faulty variant: the forced check forgets the checkpoint of the row.
GetFeedNoCheckpoint(table, id) ==
    [RssFeed(id, Get(table[id])) EXCEPT !.last_pub_date = None]

\* SELECT id, name, feed_url, last_pub_date FROM rss_feeds WHERE id = $1
GetFeed(table, id) == RssFeed(id, Get(table[id]))

\* Faulty variant: a missing row is taken as a row of default values
\* (fetch_optional(..).unwrap_or_default() in place of fetch_one(..)?).
ForceSendFeedUnchecked ==
    /\ Serving
    /\ \E id \in IDs, ok \in BOOLEAN :
        IF ok THEN
            LET row == IF db[id] # None THEN Get(db[id])
                       ELSE NewRow(CHOOSE p \in Payloads : TRUE, None)
                t == NewTask(RssFeed(id, row))
            IN
            /\ BagCardinality(tasks) < MaxTasks
            /\ tasks' = tasks (+) SetToBag({t})
            /\ ev' = Event("forced", id, t, <<>>, "", "")
        ELSE
            /\ tasks' = tasks
            /\ ev' = Event("http_error", id, NoTask, <<>>, "forcesend", "")
    /\ UNCHANGED <<mainpc, schedpc, db, remote>>

\* POST /feeds/:id/forcesend: fetch_one the row, spawn its check, answer 200.
ForceSendFeed ==
    /\ Serving
    /\ \E id \in IDs, ok \in BOOLEAN :
        IF ok /\ db[id] # None THEN
            LET t == NewTask(GetFeed(db, id)) IN
            /\ BagCardinality(tasks) < MaxTasks
            /\ tasks' = tasks (+) SetToBag({t})
            /\ ev' = Event("forced", id, t, <<>>, "", "")
        ELSE
            /\ tasks' = tasks
            /\ ev' = Event("http_error", id, NoTask, <<>>, "forcesend", "")
    /\ UNCHANGED <<mainpc, schedpc, db, remote>>

Next ==
    \/ PrepareDb
    \/ ConnectDb
    \/ Migrate
    \/ SpawnScheduler
    \/ Bind
    \/ SendFeeds
    \/ Wake
    \/ Publish
    \/ CheckSendFeed
    \/ CreateFeed
    \/ ModifyFeed
    \/ DeleteFeed
    \/ ForceSendFeed

Spec == Init /\ [][Next]_vars

\* The tokio runtime runs the scheduler task whenever it can run: its sleep
\* elapses, and send_feeds returns (with the list or with an error).
FairSpec == Spec /\ WF_vars(Wake) /\ WF_vars(SendFeeds)

\* The steps of the checks of row `id` in which nothing fails: the feed is read
\* and parsed and its item has the title send_notification asks for, the relay
\* takes the mail, the UPDATE is executed.
FetchOk(id) ==
    /\ Alive
    /\ \E t \in InFlight : t.feed.id = id /\ Fetch(t)
    /\ ev'.kind \in {"check_changed", "check_noop"}
    /\ Get(ev'.task.item).title
SendOk(id) ==
    /\ Alive
    /\ \E t \in InFlight : t.feed.id = id /\ Send(t)
    /\ ev'.kind = "mail_sent"
UpdateOk(id) ==
    /\ Alive
    /\ \E t \in InFlight : t.feed.id = id /\ Update(t)
    /\ ev'.kind = "check_updated"

\* The table of the liveness runs holds rows of the ids up to LiveMaxId only.
LiveIDs == 1..LiveMaxId
LiveStored == \A i \in IDs \ LiveIDs : db[i] = None
LiveInit == Init /\ LiveStored
LiveCreateFeed == CreateFeed /\ LiveStored'
LiveNext ==
    \/ PrepareDb
    \/ ConnectDb
    \/ Migrate
    \/ SpawnScheduler
    \/ Bind
    \/ SendFeeds
    \/ Wake
    \/ Publish
    \/ CheckSendFeed
    \/ LiveCreateFeed
    \/ ModifyFeed
    \/ DeleteFeed
    \/ ForceSendFeed

\* Every task the liveness runs can hold in flight, and one step of task t.
LiveTasks ==
    LET feeds == { RssFeed(id, row) : id \in LiveIDs, row \in Rows }
        items == { ItemOf(r) : r \in UNION { Responses(t) : t \in Times } }
    IN { NewTask(f) : f \in feeds }
       \cup { [feed |-> f, pc |-> "send", item |-> Some(i), nsent |-> 0] :
                 f \in feeds, i \in items }
       \cup { [feed |-> f, pc |-> "update", item |-> Some(i), nsent |-> 1] :
                 f \in feeds, i \in items }
TaskStep(t) ==
    /\ Alive
    /\ BagIn(t, tasks)
    /\ Fetch(t) \/ Send(t) \/ Update(t)

\* The scheduler as in FairSpec; the tokio runtime polls every spawned task, so
\* every check in flight takes its next step; and for the checks of each row no
\* step of fetch, send or write that can be taken again and again fails for ever.
LiveSpec ==
    /\ LiveInit
    /\ [][LiveNext]_vars
    /\ WF_vars(Wake)
    /\ WF_vars(SendFeeds)
    /\ \A t \in LiveTasks : WF_vars(TaskStep(t))
    /\ \A id \in LiveIDs :
          SF_vars(FetchOk(id)) /\ SF_vars(SendOk(id)) /\ SF_vars(UpdateOk(id))
\* ================================================================ properties
\* The checks of which the state shows what they did: those in flight, and the
\* one the last step ended.
Ended == ev.kind \in {"check_failed", "check_noop", "check_updated"}
Known == InFlight \cup (IF Ended THEN {ev.task} ELSE {})
HasItem(t) == t.item # None
PubDate(t) == Get(t.item).pub_date
Matches(t) == HasItem(t) /\ t.feed.last_pub_date = Some(PubDate(t))
RowOf(id) == Get(db[id])

\* How many notifications for item `ts` of feed `id` the state shows: one per
\* check in flight that has sent it, and one if the last step ended such a check.
MailsFor(id, ts) ==
    LET shows(t) == t.feed.id = id /\ t.nsent > 0 /\ HasItem(t) /\ PubDate(t) = ts
        flying == { t \in InFlight : shows(t) }
        RECURSIVE Sum(_)
        Sum(S) == IF S = {} THEN 0
                  ELSE LET t == CHOOSE x \in S : TRUE
                       IN t.nsent * CopiesIn(t, tasks) + Sum(S \ {t})
    IN Sum(flying) + (IF Ended /\ shows(ev.task) THEN ev.task.nsent ELSE 0)

\* C1 as the spec states it: a detected change of a feed is notified exactly
\* once, so no state shows two notifications for the same item of one feed.
C1_ExactlyOncePerChange ==
    \A id \in IDs, ts \in Times : MailsFor(id, ts) <= 1

\* C1, amended: each check sends at most one notification, and sends one only
\* when the checkpoint it was spawned with is absent or differs from the fetched
\* pub_date; a check that reaches the checkpoint write has sent exactly one, and
\* a check spawned with the checkpoint of the fetched item sends none.
C1_AtMostOncePerCheck ==
    \A t \in Known :
        /\ t.nsent <= 1
        /\ t.nsent = 1 => HasItem(t) /\ ~Matches(t)
        /\ t.pc = "update" => t.nsent = 1
        /\ (t = ev.task /\ ev.kind = "check_updated") => t.nsent = 1
        /\ Matches(t) => t.nsent = 0 /\ t = ev.task /\ ev.kind = "check_noop"

\* A check sent its one notification and wrote its checkpoint.
C1_Witness ==
    /\ ev.kind = "check_updated"
    /\ ev.task.nsent = 1
    /\ db[ev.id] # None
    /\ RowOf(ev.id).last_pub_date = Some(PubDate(ev.task))

\* C2: a check spawned with no checkpoint that fetches an item, sends it and
\* writes its checkpoint has sent exactly one notification, and the row's
\* last_pub_date is the item's pub_date.
C2_Bootstrap ==
    (ev.kind = "check_updated" /\ ev.task.feed.last_pub_date = None /\ db[ev.id] # None)
        => /\ ev.task.nsent = 1
           /\ RowOf(ev.id).last_pub_date = Some(PubDate(ev.task))

C2_Witness ==
    /\ ev.kind = "check_updated"
    /\ ev.task.feed.last_pub_date = None
    /\ ev.task.nsent = 1
    /\ db[ev.id] # None
    /\ RowOf(ev.id).last_pub_date = Some(PubDate(ev.task))

\* C3: a check whose checkpoint equals the fetched pub_date ends at the match,
\* successfully, with no notification sent, and the step that ends it leaves the
\* table as it was.
C3_NoOpOnMatch ==
    /\ [](\A t \in Known :
            Matches(t) => /\ t = ev.task
                          /\ ev.kind = "check_noop"
                          /\ ev.err = ""
                          /\ t.nsent = 0)
    /\ [][ (\E t \in InFlight : t.pc = "fetch" /\ Fetch(t)
                /\ ev'.io = "ok" /\ Matches(ev'.task))
           => db' = db /\ ev'.kind = "check_noop" ]_vars

C3_Witness ==
    /\ ev.kind = "check_noop"
    /\ Matches(ev.task)
    /\ ev.task.nsent = 0
    /\ db[ev.id] # None
    /\ RowOf(ev.id).last_pub_date = ev.task.feed.last_pub_date

\* C4: the match decides "unchanged" exactly when the checkpoint is present and
\* equal to the fetched pub_date, for every pair of values and in every check;
\* and a check whose checkpoint is later than the fetched pub_date, once it has
\* sent and written, has sent one notification and set the row to the earlier
\* pub_date.
C4_EqualityOnly ==
    /\ \A stored \in Option(Times), fetched \in Times :
          IsChanged(stored, fetched) <=> stored # Some(fetched)
    /\ ev.kind = "check_noop" => Matches(ev.task)
    /\ ev.kind = "check_changed" => ~Matches(ev.task)
    /\ \A t \in InFlight : t.pc \in {"send", "update"} => ~Matches(t)
    /\ (/\ ev.kind = "check_updated"
        /\ ev.task.feed.last_pub_date # None
        /\ PubDate(ev.task) < Get(ev.task.feed.last_pub_date)
        /\ db[ev.id] # None)
        => /\ ev.task.nsent = 1
           /\ RowOf(ev.id).last_pub_date = Some(PubDate(ev.task))

\* A check spawned with a later checkpoint set the row back to the earlier item.
C4_Witness ==
    /\ ev.kind = "check_updated"
    /\ ev.task.feed.last_pub_date # None
    /\ PubDate(ev.task) < Get(ev.task.feed.last_pub_date)
    /\ ev.task.nsent = 1
    /\ db[ev.id] # None
    /\ RowOf(ev.id).last_pub_date = Some(PubDate(ev.task))

\* The answers of the relay that make send_notification fail.
SmtpFailures == SmtpOutcomes \ {"ok"}

\* C5: when the relay refuses the connection or the mail, the step ends the
\* check with that error logged, no notification counted and the table as it
\* was, so the check writes no checkpoint; and while the row still holds the
\* checkpoint the check was spawned with, a check spawned from it now that
\* fetches the same item decides "changed" again.
C5_SendFailureKeepsCheckpoint ==
    /\ [][ ev'.io \in SmtpFailures
           => /\ db' = db
              /\ ev'.kind = "check_failed"
              /\ ev'.err = ev'.io
              /\ ev'.task.pc = "done"
              /\ ev'.task.nsent = 0
              /\ BagCardinality(tasks') = BagCardinality(tasks) - 1 ]_vars
    /\ []((/\ ev.io \in SmtpFailures
           /\ db[ev.id] # None
           /\ RowOf(ev.id).last_pub_date = ev.task.feed.last_pub_date)
          => LET again == NewTask(GetFeed(db, ev.id))
             IN again.feed.last_pub_date # Some(PubDate(ev.task)))

\* The relay failed a check whose row still holds the checkpoint it read.
C5_Witness ==
    /\ ev.io \in SmtpFailures
    /\ ev.kind = "check_failed"
    /\ ev.task.nsent = 0
    /\ db[ev.id] # None
    /\ RowOf(ev.id).last_pub_date = ev.task.feed.last_pub_date

\* The steps of the polling core: the scheduler and the checks.
CoreKinds == {"cycle_dispatched", "cycle_failed", "cycle_begins", "check_failed",
              "check_noop", "check_changed", "mail_sent", "check_updated"}

FeedErrors == {"RSS Fetch failed", "RSS channel read failed", "RSS channel item empty",
               "RSS Item missing pub_date", "Failed RFC2822 RSS pub_date parsing",
               "RSS Item missing link", "RSS Item missing title"}

\* C7: a step in which a check fails on its feed ends that check alone: it has
\* sent no notification, the table is as it was, and every other check in flight
\* is still in flight exactly as it was, so it goes on as without the failure.
C7_FailureIsolation ==
    [][ (ev'.kind = "check_failed" /\ ev'.err \in FeedErrors)
        => /\ ev'.task.nsent = 0
           /\ db' = db
           /\ \E t \in InFlight :
                /\ t.feed = ev'.task.feed
                /\ tasks' = tasks (-) SetToBag({t})
           /\ schedpc' = schedpc
           /\ mainpc' = mainpc ]_vars

\* A check failed on its feed while a check of another feed is in flight.
C7_Witness ==
    /\ ev.kind = "check_failed"
    /\ ev.err \in FeedErrors
    /\ ev.task.nsent = 0
    /\ \E t \in InFlight : t.feed.id # ev.id

\* C8: the check a force trigger launches is the check a cycle dispatching from
\* the same table launches for that id (same function, same row, checkpoint
\* included), so from there on the two do the same; and when the handler
\* answers, that check is in flight at its first step with nothing sent.
C8_ForceIsSameCheck ==
    ev.kind = "forced"
        => /\ db[ev.id] # None
           /\ ev.task.feed.id = ev.id
           /\ BagIn(ev.task, SpawnAll(EmptyBag, ListFeeds(db)))
           /\ BagIn(ev.task, tasks)
           /\ ev.task.pc = "fetch"
           /\ ev.task.nsent = 0

\* A forced check of a row with a checkpoint is in flight beside a scheduled
\* check of the same row, and the two are the same task.
C8_Witness ==
    /\ ev.kind = "forced"
    /\ ev.task.feed.last_pub_date # None
    /\ CopiesIn(ev.task, tasks) = 2

\* C9: a cycle whose listing fails launches no check, changes nothing but the
\* log and leaves the scheduler at its sleep; and after every cycle, failed or
\* not, with checks still in flight or not, the next cycle begins, for as long
\* as the process lives.
C9_SchedulerSurvivesFailure ==
    /\ [][ ev'.kind = "cycle_failed"
           => /\ tasks' = tasks
              /\ db' = db
              /\ mainpc' = mainpc
              /\ schedpc' = "sleep" ]_vars
    /\ (ev.kind \in {"cycle_failed", "cycle_dispatched"})
          ~> (ev.kind = "cycle_begins" \/ ~Alive)

\* A cycle has failed while a check of an earlier cycle is still in flight.
C9_Witness ==
    /\ ev.kind = "cycle_failed"
    /\ schedpc = "sleep"
    /\ Alive
    /\ \E t \in InFlight : t.pc # "fetch"

\* C10 as the spec states it: no cycle runs, no check is launched and no
\* notification is sent before every startup step, the bind of the listener
\* included, has succeeded.
C10_NothingBeforeStartupDone ==
    (ev.kind \in CoreKinds \/ tasks # EmptyBag) => mainpc = "serve"

\* The steps of a check, and the place of each pc in the order of the code.
TaskKinds == {"check_failed", "check_noop", "check_changed", "mail_sent", "check_updated"}
Rank(pc) == CASE pc = "fetch" -> 0 [] pc = "send" -> 1 [] pc = "update" -> 2 [] OTHER -> 3

\* C11: a check decides on the feed it was spawned with and never reads the row
\* again: every step of a check keeps that feed, and the match says "changed"
\* exactly when the pub_date differs from the checkpoint in it, whatever the row
\* holds by then.  So two checks of one feed spawned from the same row both
\* decide "changed" and both send (the state of C11_Witness).
C11_DecidesOnSnapshot ==
    [][ ev'.kind \in TaskKinds
        => \E t \in InFlight :
             /\ ev'.task.feed = t.feed
             /\ ev'.kind = "check_changed"
                  => t.feed.last_pub_date # Some(PubDate(ev'.task))
             /\ ev'.kind = "check_noop"
                  => t.feed.last_pub_date = Some(PubDate(ev'.task)) ]_vars

\* Two checks of one feed, spawned with the same checkpoint, are in flight and
\* both have sent a notification for the same item.
C11_Witness ==
    \E t \in InFlight :
        /\ CopiesIn(t, tasks) = 2
        /\ t.pc = "update"
        /\ t.nsent = 1
        /\ ev.kind = "mail_sent"
        /\ ev.task = t

\* C12: the step that dispatches a cycle only adds one fresh check per listed
\* row and puts the scheduler to sleep: no check has run in it and the checks
\* already in flight are as they were; and the sleeping scheduler can begin the
\* next cycle whatever is still in flight.
C12_FireAndForget ==
    /\ [][ ev'.kind = "cycle_dispatched"
           => /\ schedpc' = "sleep"
              /\ BagCardinality(tasks') = BagCardinality(tasks) + Len(ev'.feeds)
              /\ \A i \in 1..Len(ev'.feeds) :
                    LET t == [feed |-> ev'.feeds[i], pc |-> "fetch",
                              item |-> None, nsent |-> 0]
                    IN CopiesIn(t, tasks') = CopiesIn(t, tasks) + 1
              /\ \A t \in InFlight : CopiesIn(t, tasks') >= CopiesIn(t, tasks)
              /\ db' = db ]_vars
    /\ []((Alive /\ schedpc = "sleep") => ENABLED Wake)

\* A cycle has been dispatched while a check launched before it, which has
\* already sent its mail, is still in flight.
C12_Witness ==
    /\ ev.kind = "cycle_dispatched"
    /\ Len(ev.feeds) > 0
    /\ BagCardinality(tasks) > Len(ev.feeds)
    /\ \E t \in InFlight : t.pc = "update"

\* The ids of the rows of rss_feeds.
StoredIds == { i \in IDs : db[i] # None }

WriteFailed(e) == e.kind = "check_failed" /\ e.err = "Failed to set last_pub_date in DB"

\* C14: the step in which the checkpoint write fails ends a check that has sent
\* its one notification, is logged as an error of that feed, and leaves the
\* table as it was: where the row still carries the checkpoint the check was
\* launched with, that checkpoint differs from the item notified, so a check
\* launched from the row and fetching the same item decides "changed" again.
C14_WriteFailureKeepsCheckpoint ==
    [][ WriteFailed(ev')
        => \E t \in InFlight :
              /\ t.pc = "update"
              /\ t.nsent = 1
              /\ ev'.id = t.feed.id
              /\ ev'.task = [t EXCEPT !.pc = "done"]
              /\ tasks' = tasks (-) SetToBag({t})
              /\ db' = db
              /\ (/\ db'[t.feed.id] # None
                  /\ Get(db'[t.feed.id]).last_pub_date = t.feed.last_pub_date)
                 => /\ Get(db'[t.feed.id]).last_pub_date # Some(PubDate(t))
                    /\ IsChanged(Get(db'[t.feed.id]).last_pub_date, PubDate(t)) ]_vars

\* The write of a check has failed after its mail went out; the row is stored
\* with the checkpoint the check started from and the feed still shows the
\* item, with the scheduler running.
C14_Witness ==
    /\ WriteFailed(ev)
    /\ ev.task.nsent = 1
    /\ ev.id \in StoredIds
    /\ RowOf(ev.id).last_pub_date = ev.task.feed.last_pub_date
    /\ RowOf(ev.id).last_pub_date # None
    /\ remote[RowOf(ev.id).feed_url] = PubDate(ev.task)
    /\ schedpc \in {"sleep", "cycle"}
    /\ Alive

C16_NoRetry ==
    [][ ev'.kind \in TaskKinds
        => \E t \in InFlight :
              LET u == ev'.task IN
              /\ u.feed = t.feed
              /\ Rank(u.pc) > Rank(t.pc)
              /\ u.nsent <= 1
              /\ u.nsent >= t.nsent
              /\ tasks' = IF u.pc = "done" THEN tasks (-) SetToBag({t})
                          ELSE (tasks (-) SetToBag({t})) (+) SetToBag({u})
              /\ t.pc = "send" => (u.nsent = t.nsent + 1) = (ev'.kind = "mail_sent")
              /\ (t.pc = "send" /\ ev'.kind # "mail_sent") => u.pc = "done"
              /\ t.pc = "update" => u.pc = "done" /\ u.nsent = t.nsent
              /\ ev'.kind = "mail_sent"
                    => /\ t.pc = "send" /\ t.nsent = 0
                       /\ t.feed.last_pub_date # Some(PubDate(t)) ]_vars

\* The relay refused the mail of the only check in flight, which has ended
\* without a notification; the row and the item are still there for a later
\* check.
C16_Witness ==
    /\ ev.kind = "check_failed"
    /\ ev.io \in SmtpFailures
    /\ ev.task.nsent = 0
    /\ tasks = EmptyBag
    /\ ev.id \in StoredIds
    /\ remote[RowOf(ev.id).feed_url] = PubDate(ev.task)

\* C19: a force trigger for an id without a row answers with an error, and that
\* step launches no check, sends nothing and leaves the table as it was; a
\* check is launched by a force trigger only for a stored row.
C19_ForceOfMissingRow ==
    /\ [][ (ForceSendFeed /\ ev'.id \notin StoredIds)
           => /\ ev'.kind = "http_error"
              /\ ev'.err = "forcesend"
              /\ ev'.task = NoTask
              /\ tasks' = tasks
              /\ db' = db ]_vars
    /\ [][ ev'.kind = "forced"
           => /\ ev'.id \in StoredIds
              /\ ev'.task.feed.id = ev'.id
              /\ tasks' = tasks (+) SetToBag({ev'.task}) ]_vars

\* A force trigger for an id without a row has been answered with an error
\* while another row is stored and no check is in flight.
C19_Witness ==
    /\ ev.kind = "http_error"
    /\ ev.err = "forcesend"
    /\ ev.id \notin StoredIds
    /\ StoredIds # {}
    /\ tasks = EmptyBag

\* Row X is stored and the newest item of its feed is of time T.
Stays(X, T) == X \in StoredIds /\ remote[RowOf(X).feed_url] = T
Checkpoint(X) == IF X \in StoredIds THEN RowOf(X).last_pub_date ELSE None
\* The last step wrote T as the checkpoint of row X, by a check that had sent
\* the notification of the item of time T.
NotifiedAndSaved(X, T) ==
    /\ ev.kind = "check_updated"
    /\ ev.id = X
    /\ ev.task.nsent = 1
    /\ PubDate(ev.task) = T
    /\ Checkpoint(X) = Some(T)

\* C17: with listings that succeed again and again, and with no step of the
\* checks failing for ever, whenever row X is stored with a checkpoint other
\* than the time T of the newest item of its feed, then either the row is
\* deleted or the feed publishes another item, or a check sends the
\* notification of T and writes T as the checkpoint of X.
C17_EventualNotification ==
    ([]<>(ev.kind = "cycle_dispatched"))
        => \A X \in LiveIDs, T \in Times :
              (Stays(X, T) /\ Checkpoint(X) # Some(T))
                 ~> (~Stays(X, T) \/ NotifiedAndSaved(X, T))

\* A check has sent the notification of a new item and replaced an older
\* checkpoint by its time, the item still being the newest of the feed.
C17_Witness ==
    \E X \in IDs, T \in Times :
        /\ NotifiedAndSaved(X, T)
        /\ Stays(X, T)
        /\ ev.task.feed.last_pub_date \notin {None, Some(T)}
        /\ tasks = EmptyBag
        /\ schedpc = "sleep"

\* No step of a cycle or of a check has just failed.
NoFailure == ev.kind \notin {"check_failed", "cycle_failed"}
\* Row X holds the checkpoint T, the last step sent no notification of its feed
\* and every check of X in flight was launched with the checkpoint T and waits
\* for the feed, where it will find nothing new.
Stable(X, T) ==
    /\ Checkpoint(X) = Some(T)
    /\ ~(ev.kind = "mail_sent" /\ ev.id = X)
    /\ \A t \in InFlight :
          t.feed.id = X => t.pc = "fetch" /\ t.feed.last_pub_date = Some(T)

\* C18: in every run in which cycles are dispatched again and again, row X is in
\* the end stored for good with T the newest item of its feed for good, and in
\* the end no step of a cycle or a check fails, there is a point from which on
\* the checkpoint of X is T, no notification of X is sent, and the only checks
\* of X in flight are those that will find nothing new, whatever checks with
\* older snapshots did before.
C18_Stabilization ==
    \A X \in LiveIDs, T \in Times :
        (/\ []<>(ev.kind = "cycle_dispatched")
         /\ <>[]Stays(X, T)
         /\ <>[]NoFailure)
            => <>[]Stable(X, T)

\* A check of a row whose checkpoint is the newest item has found nothing new
\* while another check of the row, launched with that checkpoint, waits for the
\* feed.
C18_Witness ==
    \E X \in LiveIDs, T \in Times :
        /\ Stable(X, T)
        /\ Stays(X, T)
        /\ ev.kind = "check_noop"
        /\ ev.id = X
        /\ \E t \in InFlight : t.feed.id = X

====
